---- MODULE Spec2Model ----
(***************************************************************************)
(* Model of the wifi_i2c firmware: the UDP transport task                  *)
(* (src/main/udp_server.cpp) and the command engine (the engine.cpp        *)
(* revision with per-command register width, virtual device and            *)
(* CMD_GET_FWREV, stored at src/main/udp_server.h lines 36-473).           *)
(*                                                                         *)
(* The two tasks share rolling_buffer (written by CUDPServer::task, read   *)
(* by CEngine::task), the FreeRTOS queue m_event_queue and source_addr.    *)
(* One step of CEngine::task handles one dequeued packet from start to     *)
(* finish; only the engine touches the session state, so the step is       *)
(* atomic with respect to CUDPServer::task.                                *)
(***************************************************************************)
EXTENDS Integers, Sequences, FiniteSets, TLC

\* ------------------------------------------------------------------------
\* Bounds of the model
\* ------------------------------------------------------------------------
\* number of datagrams the network delivers in one behaviour
MaxRecv == 3
\* I2C.write calls of one request whose outcome the bus may choose
MaxBusOps == 2
MaxRecvQueue == 52
MaxRecvFail == 2
MaxRecvRing == 21
RingFill == 18

\* ------------------------------------------------------------------------
\* Program constants
\* ------------------------------------------------------------------------
CMD_INIT_SEQ == 0
CMD_CLIENT_PORT == 1
CMD_I2C_ADDR == 2
CMD_WRITE_REG == 3
CMD_READ_REG == 4
CMD_GET_FWREV == 5

ERR_NONE == 0
ERR_NOT_ENUF_DATA == 1
ERR_I2C_WRITE == 2
ERR_I2C_READ == 3

SERVER_PORT == 1182
MAX_PACKET_SIZE == 1024
ROLLING_BUFFER_SIZE == 20000
QUEUE_LENGTH == 50
DEFAULT_I2C_ADDRESS == 98
FW_VERSION == 1000
READ_BUFFER_SIZE == 1024
REPLY_BUFFER_SIZE == 1024
\* default value of the width parameter of reply(error_code, value, width),
\* declared in the engine.h that belongs to this revision of engine.cpp
REPLY_DEFAULT_WIDTH == 1

KnownCommands == {CMD_INIT_SEQ, CMD_CLIENT_PORT, CMD_I2C_ADDR, CMD_WRITE_REG,
                  CMD_READ_REG, CMD_GET_FWREV}

\* ------------------------------------------------------------------------
\* Inputs: the datagrams and senders the network may deliver
\* ------------------------------------------------------------------------
\* transaction ids as they travel on the wire (4 bytes, big-endian); the two
\* ids differ in their three high bytes only
IdT1 == <<0, 0, 0, 1>>
IdT2 == <<255, 254, 3, 1>>
WireIds == {IdT1, IdT2}

\* command byte followed by the command payload
Bodies ==
    { <<0>>,                                              \* INIT_SEQ
      <<1, 35, 40>>,                                      \* SET_CLIENT_PORT 9000
      <<2, 0>>,                                           \* SET_BUS_ADDRESS 0
      <<3, 1, 16, 0, 2, 170, 187, 1, 32, 0, 1, 204>>,     \* WRITE_REG, two entries
      <<3, 1, 16, 0, 10, 1, 2, 3>>,                       \* WRITE_REG, claims 10, has 3
      <<4, 1, 16, 0, 2>>,                                 \* READ_REG 0x10, length 2
      <<5>>,                                              \* GET_FWREV
      <<6>> }                                             \* unknown command

\* the requests the second transaction id is seen with
OtherBodies ==
    { <<0>>,                                              \* INIT_SEQ
      <<3, 1, 16, 0, 2, 170, 187, 1, 32, 0, 1, 204>> }    \* WRITE_REG, two entries

\* datagrams too short to hold a transaction id and a command
ShortDatagrams == { <<>>, <<0, 0, 1>>, <<0, 0, 0, 1>> }

Datagrams ==
    { IdT1 \o b : b \in Bodies } \cup { IdT2 \o b : b \in OtherBodies } \cup ShortDatagrams

Senders == { [ip |-> 10, port |-> 5000] }

\* what the device behind the real bus answers to a read
BusReadSeeds == {17, 200}
BusReadStatus == {"ok", "addr_fail", "data_fail"}

\* ------------------------------------------------------------------------
\* State
\* ------------------------------------------------------------------------
VARIABLES
    \* CEngine
    m_have_most_recent_trans_id,
    m_most_recent_trans_id,
    m_command,
    m_i2c_address,
    virtual_device,      \* cells that are not 0 (the array is zero-initialised)
    engine_running,      \* CEngine::task has not returned
    m_event_queue,       \* sequence of packet_t
    \* CUDPServer
    rolling_buffer,      \* bytes that are not 0 (the array is zero-initialised)
    next_in,             \* offset of next_in inside rolling_buffer
    buffer_remaining,
    source_addr,
    udp_task,            \* where CUDPServer::task is: "boot", "listening" or "ended";
                         \* "none" when no task exists
    m_is_running,
    sock,                \* -1 or the descriptor of the open socket
    os_calls,            \* tasks created and deleted, sockets opened and closed,
                         \* and the latest two calls of begin() / stop()
    task_log,            \* the lines CUDPServer::task has written (ESP_LOGE, "Rcvd")
    \* observation of the run
    nrecv,               \* datagrams received so far
    last_recv,           \* the latest successful recvfrom
    sent,                \* sendto calls of the latest step of CEngine::task
    bus_log,             \* bus operations of the latest step of CEngine::task
    last_step,           \* the packet the latest step dequeued and what became of it
    prev_step,           \* the same for the step before
    processed,           \* per id: requests executed since a reset with another id
    executed             \* ids of the requests executed so far

engine_vars == <<m_have_most_recent_trans_id, m_most_recent_trans_id, m_command,
                 m_i2c_address, virtual_device, engine_running>>
server_vars == <<rolling_buffer, next_in, buffer_remaining>>
observe_vars == <<sent, bus_log, last_step, prev_step, processed, executed>>
task_vars == <<udp_task, task_log>>
ctl_vars == <<m_is_running, sock, os_calls>>
vars == <<engine_vars, m_event_queue, server_vars, source_addr, nrecv, observe_vars,
          task_vars, last_recv, ctl_vars>>

\* ------------------------------------------------------------------------
\* Memory helpers
\* ------------------------------------------------------------------------
\* a zero-initialised byte array kept as the function of its non-zero cells
Peek(mem, o) == IF o \in DOMAIN mem THEN mem[o] ELSE 0

\* copy the n bytes data[1..n] to mem[off .. off+n-1]
Poke(mem, off, data) ==
    LET n == Len(data)
        hit == off .. (off + n - 1)
        keep == (DOMAIN mem \ hit) \cup { o \in hit : data[o - off + 1] # 0 }
    IN  [o \in keep |-> IF o \in hit THEN data[o - off + 1] ELSE mem[o]]

\* *p for a pointer p into rolling_buffer
Byte(p) == Peek(rolling_buffer, p)

\* the bytes p[0..n-1]
Bytes(p, n) == [i \in 1 .. n |-> Byte(p + i - 1)]

\* ------------------------------------------------------------------------
\* 32-bit words.  A word is kept as its two 16-bit halves, hi * 65536 + lo.
\* ------------------------------------------------------------------------
Word(n) == [hi |-> n \div 65536, lo |-> n % 65536]

\* (w << 8) | b on 32 bits
ShlOr(w, b) == [hi |-> (w.hi * 256 + w.lo \div 256) % 65536, lo |-> (w.lo % 256) * 256 + b]

\* (unsigned char)(w >> 24), (w >> 16), (w >> 8), (w)
Byte3(w) == w.hi \div 256
Byte2(w) == w.hi % 256
Byte1(w) == w.lo \div 256
Byte0(w) == w.lo % 256

\* ------------------------------------------------------------------------
\* CEngine: pure parts of task()
\* ------------------------------------------------------------------------
\* "if (packet.length < 5) return;"
TooShort_OffByOne(length) == length < 4
TooShort(length) == length < 5

\* uint32_t trans_id assembled from four bytes, most significant first
TransId_LowByte(b0, b1, b2, b3) == ShlOr(ShlOr(ShlOr(ShlOr(Word(0), 0), 0), 0), b3)
TransId(b0, b1, b2, b3) == ShlOr(ShlOr(ShlOr(ShlOr(Word(0), b0), b1), b2), b3)

\* "if (*in == CMD_INIT_SEQ || *in == CMD_CLIENT_PORT) m_have_... = false;"
ForgetOnReset_Never(command, have) == have
ForgetOnReset(command, have) ==
    IF command = CMD_INIT_SEQ \/ command = CMD_CLIENT_PORT THEN FALSE ELSE have

\* "if (m_have_most_recent_trans_id && trans_id == m_most_recent_trans_id) continue;"
IsDuplicate_Never(have, recent, trans_id) == FALSE
IsDuplicate(have, recent, trans_id) == have /\ trans_id = recent

\* ------------------------------------------------------------------------
\* The engine's view of the program while it handles one packet
\* ------------------------------------------------------------------------
Context ==
    [ have |-> m_have_most_recent_trans_id,
      recent |-> m_most_recent_trans_id,
      command |-> m_command,
      i2c |-> m_i2c_address,
      vdev |-> virtual_device,
      src |-> source_addr,
      running |-> engine_running,
      sent |-> <<>>,          \* sendto calls made so far
      bus |-> <<>>,           \* bus operations made so far
      returned |-> FALSE,     \* the handler has executed a return
      overrun |-> FALSE,      \* a store went past the end of read_buffer or reply_buffer
      read_end |-> 0,         \* one past the highest byte of rolling_buffer read so far
      loops |-> 0,            \* iterations of the loop of handle_cmd_write_reg so far
      kind |-> "exec" ]       \* "short", "dup" or "exec"

\* ------------------------------------------------------------------------
\* CUDPServer as seen from the engine
\* ------------------------------------------------------------------------
\* CUDPServer::reply: the port of source_addr is overwritten, then sendto
UDPServer_reply(st, data) ==
    [st EXCEPT !.src = [@ EXCEPT !.port = SERVER_PORT],
               !.sent = Append(@, [ip |-> st.src.ip, port |-> SERVER_PORT, data |-> data])]

\* CUDPServer::set_client_port: only the port of the reply destination changes
UDPServer_set_client_port(st, port) ==
    [st EXCEPT !.src = [@ EXCEPT !.port = port]]

\* ------------------------------------------------------------------------
\* CEngine::reply
\* ------------------------------------------------------------------------
\* contents of reply_buffer[0 .. length-1]
ReplyBytes_LittleEndian(trans_id, command, error_code, data) ==
    << Byte0(trans_id), Byte1(trans_id), Byte2(trans_id), Byte3(trans_id),
       command, error_code % 256 >> \o data
ReplyBytes(trans_id, command, error_code, data) ==
    << Byte3(trans_id), Byte2(trans_id), Byte1(trans_id), Byte0(trans_id),
       command, error_code % 256 >> \o data

\* reply(error_code, data, data_len); the memcpy into reply_buffer is not
\* bounded by the size of that array
Reply(st, error_code, data) ==
    LET out == UDPServer_reply(st, ReplyBytes(st.recent, st.command, error_code, data))
    IN  [out EXCEPT !.overrun = @ \/ (6 + Len(data) > REPLY_BUFFER_SIZE)]

\* the bytes reply(error_code, value, width) stores in "bytes", MSB first
ValueBytes(value, width) ==
    (IF width >= 4 THEN <<Byte3(value)>> ELSE <<>>) \o
    (IF width >= 3 THEN <<Byte2(value)>> ELSE <<>>) \o
    (IF width >= 2 THEN <<Byte1(value)>> ELSE <<>>) \o
    (IF width >= 1 THEN <<Byte0(value)>> ELSE <<>>)

\* reply(error_code, value, width)
ReplyValue_ForgetOnError(st, error_code, value, width) ==
    [Reply(st, error_code, ValueBytes(value, width)) EXCEPT !.have = (error_code = ERR_NONE)]
ReplyValue(st, error_code, value, width) ==
    Reply(st, error_code, ValueBytes(value, width))

\* ------------------------------------------------------------------------
\* Bus access
\* ------------------------------------------------------------------------
\* "int index = (reg + i) & 0xFF;"
VdevIndex_NoMask(reg, i) == reg.lo + i
VdevIndex(reg, i) == (Byte0(reg) + i) % 256

\* virtual_device[index] = data[i] for i = 0 .. length-1
VdevWrite(vdev, reg, data) ==
    LET n == Len(data)
        last(c) == CHOOSE i \in 0 .. (n - 1) :
                       /\ VdevIndex(reg, i) = c
                       /\ \A j \in (i + 1) .. (n - 1) : VdevIndex(reg, j) # c
        hit == { VdevIndex(reg, i) : i \in 0 .. (n - 1) }
        keep == (DOMAIN vdev \ hit) \cup { c \in hit : data[last(c) + 1] # 0 }
    IN  [c \in keep |-> IF c \in hit THEN data[last(c) + 1] ELSE vdev[c]]

\* data[i] = virtual_device[(reg + i) & 0xFF] for i = 0 .. length-1
VdevRead_FromZero(vdev, reg, length) ==
    [i \in 1 .. length |-> Peek(vdev, (i - 1) % 256)]
VdevRead(vdev, reg, length) ==
    [i \in 1 .. length |-> Peek(vdev, VdevIndex(reg, i - 1))]

\* what a device on the real bus returns for a read of length bytes
BusData(seed, length) == [i \in 1 .. length |-> (seed + i - 1) % 256]

\* CEngine::i2c_write; ok is the status I2C.write would report
I2CWrite_AlwaysBus(st, reg, width, data, ok) ==
    [st |-> [st EXCEPT !.bus = Append(@, [op |-> "write", addr |-> st.i2c, reg |-> reg,
                                        width |-> width, data |-> data, ok |-> ok])],
     status |-> ok]
I2CWrite_IgnoreStatus(st, reg, width, data, ok) ==
    IF st.i2c = 0
    THEN [st |-> [st EXCEPT !.vdev = VdevWrite(@, reg, data)], status |-> TRUE]
    ELSE [st |-> [st EXCEPT !.bus = Append(@, [op |-> "write", addr |-> st.i2c, reg |-> reg,
                                             width |-> width, data |-> data, ok |-> ok])],
          status |-> TRUE]
I2CWrite(st, reg, width, data, ok) ==
    IF st.i2c = 0
    THEN [st |-> [st EXCEPT !.vdev = VdevWrite(@, reg, data)], status |-> TRUE]
    ELSE [st |-> [st EXCEPT !.bus = Append(@, [op |-> "write", addr |-> st.i2c, reg |-> reg,
                                             width |-> width, data |-> data, ok |-> ok])],
          status |-> ok]

\* CEngine::i2c_read; rstat and seed are what the real bus would do
I2CRead_ReadAfterAddrFail(st, reg, width, length, rstat, seed) ==
    LET setreg == [op |-> "write", addr |-> st.i2c, reg |-> reg, width |-> width,
                   data |-> <<>>, ok |-> (rstat # "addr_fail")]
        rd == [op |-> "read", addr |-> st.i2c, reg |-> reg, width |-> width,
               data |-> BusData(seed, length), ok |-> (rstat = "ok")]
    IN  IF st.i2c = 0
        THEN [st |-> st, status |-> TRUE, data |-> VdevRead(st.vdev, reg, length)]
        ELSE [st |-> [st EXCEPT !.bus = Append(Append(@, setreg), rd)],
              status |-> (rstat = "ok"),
              data |-> IF rstat = "ok" THEN BusData(seed, length) ELSE <<>>]
I2CRead(st, reg, width, length, rstat, seed) ==
    IF st.i2c = 0
    THEN [st |-> [st EXCEPT !.overrun = @ \/ (length > READ_BUFFER_SIZE)],
          status |-> TRUE, data |-> VdevRead(st.vdev, reg, length)]
    ELSE LET setreg == [op |-> "write", addr |-> st.i2c, reg |-> reg, width |-> width,
                        data |-> <<>>, ok |-> (rstat # "addr_fail")]
             rd == [op |-> "read", addr |-> st.i2c, reg |-> reg, width |-> width,
                    data |-> BusData(seed, length), ok |-> (rstat = "ok")]
         IN  IF rstat = "addr_fail"
             THEN [st |-> [st EXCEPT !.bus = Append(@, setreg)], status |-> FALSE, data |-> <<>>]
             ELSE [st |-> [st EXCEPT !.bus = Append(Append(@, setreg), rd),
                                     !.overrun = @ \/ (length > READ_BUFFER_SIZE)],
                   status |-> (rstat = "ok"),
                   data |-> IF rstat = "ok" THEN BusData(seed, length) ELSE <<>>]

\* ------------------------------------------------------------------------
\* Command handlers
\* ------------------------------------------------------------------------
\* "while (w--) reg = (reg << 8) | *data++;" on a 32-bit int
RegNumber_LowByte(reg, p, w) == Word(Byte(p + w - 1))
RECURSIVE RegNumber(_, _, _)
RegNumber(reg, p, w) ==
    IF w <= 0 THEN reg ELSE RegNumber(ShlOr(reg, Byte(p)), p + 1, w - 1)

\* two bytes, most significant first
Length16_LittleEndian(p) == Byte(p) + Byte(p + 1) * 256
Length16(p) == Byte(p) * 256 + Byte(p + 1)

\* "data_length = data_length - reg_width - 3;"
Remaining_WidthOnly(data_length, reg_width) == data_length - reg_width - 1
Remaining_NoWidthByte(data_length, reg_width) == data_length - reg_width - 2
Remaining(data_length, reg_width) == data_length - reg_width - 3

\* the while loop of handle_cmd_write_reg; k counts the calls of i2c_write and
\* wfail is the call the real bus fails (0: none)
RECURSIVE WriteRegLoop(_, _, _, _, _)
WriteRegLoop(st, data, data_length, k, wfail) ==
    IF data_length <= 0 THEN st
    ELSE
      LET reg_width == Byte(data)
          reg == RegNumber(Word(0), data + 1, reg_width)
          write_length == Length16(data + 1 + reg_width)
          body == data + reg_width + 3
          left == Remaining(data_length, reg_width)
          hdr == [st EXCEPT !.read_end = body, !.loops = @ + 1]
      IN  IF left < write_length
          THEN [Reply(hdr, ERR_NOT_ENUF_DATA, <<>>) EXCEPT !.returned = TRUE]
          ELSE
            LET w == I2CWrite([hdr EXCEPT !.read_end = body + write_length],
                              reg, reg_width, Bytes(body, write_length), k # wfail)
            IN  IF ~w.status
                THEN [ReplyValue(w.st, ERR_I2C_WRITE, reg, REPLY_DEFAULT_WIDTH)
                         EXCEPT !.returned = TRUE]
                ELSE WriteRegLoop(w.st, body + write_length, left - write_length,
                                  k + 1, wfail)

\* the statements of handle_cmd_write_reg after its loop
WriteRegFinish_Silent(st) == [st EXCEPT !.returned = FALSE]
WriteRegFinish_Rollback(st) ==
    IF st.returned
    THEN [st EXCEPT !.returned = FALSE, !.vdev = virtual_device, !.bus = <<>>]
    ELSE Reply(st, ERR_NONE, <<>>)
WriteRegFinish_NoReturn(st) == [Reply(st, ERR_NONE, <<>>) EXCEPT !.returned = FALSE]
WriteRegFinish(st) ==
    IF st.returned THEN [st EXCEPT !.returned = FALSE] ELSE Reply(st, ERR_NONE, <<>>)

HandleCmdWriteReg(st, data, data_length, wfail) ==
    WriteRegFinish(WriteRegLoop(st, data, data_length, 1, wfail))

HandleCmdReadReg(st, data, data_length, rstat, seed) ==
    LET reg_width == Byte(data)
        reg == RegNumber(Word(0), data + 1, reg_width)
        read_length == Length16(data + 1 + reg_width)
        r == I2CRead([st EXCEPT !.read_end = data + reg_width + 3],
                     reg, reg_width, read_length, rstat, seed)
    IN  IF ~r.status
        THEN ReplyValue(r.st, ERR_I2C_READ, reg, REPLY_DEFAULT_WIDTH)
        ELSE Reply(r.st, ERR_NONE, r.data)

HandleCmdClientPort(st, data, data_length) ==
    LET udp_port == Byte(data) * 256 + Byte(data + 1)
    IN  Reply(UDPServer_set_client_port([st EXCEPT !.read_end = data + 2], udp_port),
              ERR_NONE, <<>>)

HandleCmdI2cAddr_NoStore(st, data, data_length) == Reply(st, ERR_NONE, <<>>)
HandleCmdI2cAddr(st, data, data_length) ==
    Reply([st EXCEPT !.i2c = Byte(data), !.read_end = data + 1], ERR_NONE, <<>>)

\* the switch of CEngine::task has no default label
DispatchDefault_Forget(st) == [st EXCEPT !.have = FALSE]
DispatchDefault_Ack(st) == Reply(st, ERR_NONE, <<>>)
DispatchDefault(st) == st

\* "switch(m_command)"
Dispatch(st, in, data_length, wfail, rstat, seed) ==
    CASE st.command = CMD_INIT_SEQ -> Reply(st, ERR_NONE, <<>>)
      [] st.command = CMD_WRITE_REG -> HandleCmdWriteReg(st, in, data_length, wfail)
      [] st.command = CMD_READ_REG -> HandleCmdReadReg(st, in, data_length, rstat, seed)
      [] st.command = CMD_CLIENT_PORT -> HandleCmdClientPort(st, in, data_length)
      [] st.command = CMD_I2C_ADDR -> HandleCmdI2cAddr(st, in, data_length)
      [] st.command = CMD_GET_FWREV ->
             ReplyValue(st, ERR_NONE, Word(FW_VERSION), REPLY_DEFAULT_WIDTH)
      [] OTHER -> DispatchDefault(st)

\* one iteration of the while loop of CEngine::task on a dequeued packet
TaskBody(packet, wfail, rstat, seed) ==
    IF TooShort(packet.length)
    THEN [Context EXCEPT !.running = FALSE, !.kind = "short"]
    ELSE
      LET in == packet.buffer
          trans_id == TransId(Byte(in), Byte(in + 1), Byte(in + 2), Byte(in + 3))
          have == ForgetOnReset(Byte(in + 4), m_have_most_recent_trans_id)
      IN  IF IsDuplicate(have, m_most_recent_trans_id, trans_id)
          THEN [Context EXCEPT !.have = have, !.kind = "dup", !.read_end = in + 5]
          ELSE Dispatch([Context EXCEPT !.recent = trans_id, !.have = TRUE,
                                        !.command = Byte(in + 4), !.read_end = in + 5],
                        in + 5, packet.length - 5, wfail, rstat, seed)

\* the choices of the real bus that can matter to a packet
WriteFailChoices(packet) ==
    IF ~TooShort(packet.length) /\ Byte(packet.buffer + 4) = CMD_WRITE_REG
       /\ m_i2c_address # 0
    THEN 0 .. MaxBusOps ELSE {0}
ReadStatusChoices(packet) ==
    IF ~TooShort(packet.length) /\ Byte(packet.buffer + 4) = CMD_READ_REG
       /\ m_i2c_address # 0
    THEN BusReadStatus ELSE {"ok"}
ReadSeedChoices(packet) ==
    IF ~TooShort(packet.length) /\ Byte(packet.buffer + 4) = CMD_READ_REG
       /\ m_i2c_address # 0
    THEN BusReadSeeds ELSE {17}

\* ------------------------------------------------------------------------
\* Observation of a step of CEngine::task
\* ------------------------------------------------------------------------
\* the transaction id and command a packet carries on the wire
WireId(p) == [hi |-> Byte(p) * 256 + Byte(p + 1), lo |-> Byte(p + 2) * 256 + Byte(p + 3)]
WireCommand(p) == Byte(p + 4)
IdValues == { [hi |-> id[1] * 256 + id[2], lo |-> id[3] * 256 + id[4]] : id \in WireIds }

IsReset(command) == command \in {CMD_INIT_SEQ, CMD_CLIENT_PORT}

Snapshot ==
    [ have |-> m_have_most_recent_trans_id,
      recent |-> m_most_recent_trans_id,
      command |-> m_command,
      i2c |-> m_i2c_address,
      vdev |-> virtual_device,
      src |-> source_addr,
      executed |-> executed ]

Brief(step) ==
    [kind |-> step.kind, length |-> step.length, id |-> step.id, cmd |-> step.cmd,
     bytes |-> step.bytes, buffer |-> step.buffer, errors |-> step.errors]

\* the error codes of the replies a step sent
ErrorCodes(replies) == [k \in 1 .. Len(replies) |-> replies[k].data[6]]

\* the bytes of a packet as the engine finds them in rolling_buffer
PacketBytes(packet) == [i \in 1 .. packet.length |-> Byte(packet.buffer + i - 1)]

Min(a, b) == IF a < b THEN a ELSE b

\* requests with a command other than INIT_SEQ / SET_CLIENT_PORT that were
\* executed and replied to, per id, since the latest executed INIT_SEQ or
\* SET_CLIENT_PORT that carried another id
Count(kind, id, cmd, replies) ==
    IF kind # "exec" \/ id \notin IdValues THEN processed
    ELSE IF IsReset(cmd) THEN [x \in IdValues |-> IF x = id THEN processed[x] ELSE 0]
    ELSE IF replies = 0 THEN processed
    ELSE [processed EXCEPT ![id] = Min(@ + 1, 2)]

\* the descriptor socket() returns when it succeeds
OpenSocket == 0

\* ------------------------------------------------------------------------
\* Initial state: after CEngine::begin and CUDPServer::begin, socket bound
\* ------------------------------------------------------------------------
Init ==
    /\ m_have_most_recent_trans_id = FALSE
    /\ m_most_recent_trans_id = Word(0)
    /\ m_command = 0
    /\ m_i2c_address = DEFAULT_I2C_ADDRESS
    /\ virtual_device = <<>>
    /\ engine_running = TRUE
    /\ m_event_queue = <<>>
    /\ rolling_buffer = <<>>
    /\ next_in = 0
    /\ buffer_remaining = ROLLING_BUFFER_SIZE
    /\ source_addr = [ip |-> 0, port |-> 0]
    /\ nrecv = 0
    /\ sent = <<>>
    /\ bus_log = <<>>
    /\ processed = [x \in IdValues |-> 0]
    /\ udp_task = "listening"
    /\ task_log = <<>>
    /\ m_is_running = TRUE
    /\ sock = OpenSocket
    /\ os_calls = [created |-> 1, deleted |-> 0, opened |-> 1, closed |-> 0,
                   last |-> "begin", before |-> "none"]
    /\ last_recv = [from |-> [ip |-> 0, port |-> 0], length |-> 0, at |-> 0,
                    room |-> ROLLING_BUFFER_SIZE, queued |-> FALSE]
    /\ last_step = [kind |-> "none", length |-> 0, id |-> Word(0), cmd |-> 0,
                    bytes |-> <<>>, buffer |-> 0, errors |-> <<>>,
                    pre |-> [have |-> FALSE, recent |-> Word(0), command |-> 0,
                             i2c |-> DEFAULT_I2C_ADDRESS, vdev |-> <<>>,
                             src |-> [ip |-> 0, port |-> 0],
                             executed |-> {}],
                    src_after |-> [ip |-> 0, port |-> 0],
                    read_end |-> 0, loops |-> 0]
    /\ executed = {}
    /\ prev_step = [kind |-> "none", length |-> 0, id |-> Word(0), cmd |-> 0,
                    bytes |-> <<>>, buffer |-> 0, errors |-> <<>>]

\* ------------------------------------------------------------------------
\* CUDPServer::task: one iteration of the receive loop with a successful
\* recvfrom of datagram d sent by from
\* ------------------------------------------------------------------------
\* CEngine::handle_packet: xQueueSend with a timeout of 0 ticks
HandlePacket_ToFront(queue, buffer, length) ==
    IF Len(queue) < QUEUE_LENGTH
    THEN <<[buffer |-> buffer, length |-> length % 65536]>> \o queue
    ELSE queue
HandlePacket_DropOldest(queue, buffer, length) ==
    IF Len(queue) < QUEUE_LENGTH
    THEN Append(queue, [buffer |-> buffer, length |-> length % 65536])
    ELSE Append(Tail(queue), [buffer |-> buffer, length |-> length % 65536])
HandlePacket(queue, buffer, length) ==
    IF Len(queue) < QUEUE_LENGTH
    THEN Append(queue, [buffer |-> buffer, length |-> length % 65536])
    ELSE queue

\* "if (buffer_remaining < MAX_PACKET_SIZE)"
NeedWrap_WhenFull(remaining) == remaining <= 0
NeedWrap(remaining) == remaining < MAX_PACKET_SIZE

\* (recvfrom stores at most buffer_remaining bytes of d and drops the rest)
RecvFrom_ForgetDropped(d, from) ==
    /\ udp_task = "listening"
    /\ LET length == Min(Len(d), buffer_remaining)
           full == Len(m_event_queue) >= QUEUE_LENGTH
       IN  /\ rolling_buffer' = Poke(rolling_buffer, next_in, SubSeq(d, 1, length))
           /\ source_addr' = IF full THEN source_addr ELSE from
           /\ m_event_queue' = HandlePacket(m_event_queue, next_in, length)
           /\ last_recv' = [from |-> from, length |-> length, at |-> next_in,
                            room |-> buffer_remaining, queued |-> ~full]
           /\ IF full
              THEN UNCHANGED <<next_in, buffer_remaining>>
              ELSE IF NeedWrap(buffer_remaining - length)
              THEN /\ next_in' = 0
                   /\ buffer_remaining' = ROLLING_BUFFER_SIZE
              ELSE /\ next_in' = next_in + length
                   /\ buffer_remaining' = buffer_remaining - length
    /\ nrecv' = nrecv + 1
    /\ task_log' = Append(task_log, "Rcvd")
    /\ UNCHANGED <<engine_vars, observe_vars, udp_task, ctl_vars>>
RecvFrom(d, from) ==
    /\ udp_task = "listening"
    /\ LET length == Min(Len(d), buffer_remaining)
       IN  /\ rolling_buffer' = Poke(rolling_buffer, next_in, SubSeq(d, 1, length))
           /\ source_addr' = from
           /\ m_event_queue' = HandlePacket(m_event_queue, next_in, length)
           /\ last_recv' = [from |-> from, length |-> length, at |-> next_in,
                            room |-> buffer_remaining,
                            queued |-> HandlePacket(m_event_queue, next_in, length)
                                           # m_event_queue]
           /\ IF NeedWrap(buffer_remaining - length)
              THEN /\ next_in' = 0
                   /\ buffer_remaining' = ROLLING_BUFFER_SIZE
              ELSE /\ next_in' = next_in + length
                   /\ buffer_remaining' = buffer_remaining - length
    /\ nrecv' = nrecv + 1
    /\ task_log' = Append(task_log, "Rcvd")
    /\ UNCHANGED <<engine_vars, observe_vars, udp_task, ctl_vars>>

Receive(d, from) == nrecv < MaxRecv /\ RecvFrom(d, from)

\* ------------------------------------------------------------------------
\* CEngine::task: xQueueReceive and one iteration of the loop
\* ------------------------------------------------------------------------
\* A store past the end of read_buffer or reply_buffer is undefined behaviour:
\* either the bytes behind the array were of no consequence and the handler
\* goes on as written, or the task dies before the reply is sent.
OverrunChoices(r) == IF r.overrun THEN {"harmless", "crash"} ELSE {"none"}
Overrun(r, ub) == IF ub = "crash" THEN [r EXCEPT !.running = FALSE, !.sent = <<>>] ELSE r

EngineTask ==
    /\ engine_running
    /\ m_event_queue # <<>>
    /\ LET packet == Head(m_event_queue)
       IN  \E wfail \in WriteFailChoices(packet),
              rstat \in ReadStatusChoices(packet),
              seed \in ReadSeedChoices(packet) :
           \E body \in {TaskBody(packet, wfail, rstat, seed)} :
           \E ub \in OverrunChoices(body) :
           \E r \in {Overrun(body, ub)} :
             LET id == IF r.kind = "short" THEN Word(0) ELSE WireId(packet.buffer)
                 cmd == IF r.kind = "short" THEN 0 ELSE WireCommand(packet.buffer)
             IN  /\ m_have_most_recent_trans_id' = r.have
                 /\ m_most_recent_trans_id' = r.recent
                 /\ m_command' = r.command
                 /\ m_i2c_address' = r.i2c
                 /\ virtual_device' = r.vdev
                 /\ engine_running' = r.running
                 /\ source_addr' = r.src
                 /\ sent' = r.sent
                 /\ bus_log' = r.bus
                 /\ last_step' = [kind |-> r.kind, length |-> packet.length,
                                  id |-> id, cmd |-> cmd, pre |-> Snapshot,
                                  bytes |-> PacketBytes(packet),
                                  buffer |-> packet.buffer,
                                  errors |-> ErrorCodes(r.sent),
                                  src_after |-> r.src,
                                  read_end |-> r.read_end, loops |-> r.loops]
                 /\ prev_step' = Brief(last_step)
                 /\ processed' = Count(r.kind, id, cmd, Len(r.sent))
                 /\ executed' = IF r.kind = "exec" THEN executed \cup {id} ELSE executed
    /\ m_event_queue' = Tail(m_event_queue)
    /\ UNCHANGED <<server_vars, nrecv, task_vars, last_recv, ctl_vars>>

Next ==
    \/ \E d \in Datagrams, from \in Senders : Receive(d, from)
    \/ EngineTask

Spec == Init /\ [][Next]_vars

\* ------------------------------------------------------------------------
\* Properties of the dispatch loop
\* ------------------------------------------------------------------------
\* the latest step dequeued a packet that holds an id and a command
Parsed == last_step.kind # "none" /\ last_step.length >= 5

\* the latest step left the session state of the engine as it found it
SessionUnchanged ==
    /\ m_have_most_recent_trans_id = last_step.pre.have
    /\ m_most_recent_trans_id = last_step.pre.recent
    /\ m_command = last_step.pre.command
    /\ m_i2c_address = last_step.pre.i2c
    /\ virtual_device = last_step.pre.vdev

\* the latest step left the reply destination as it found it
DestinationUnchanged == last_step.src_after = last_step.pre.src

\* the latest step sent nothing and touched no bus
Silent == sent = <<>> /\ bus_log = <<>>

\* C1: a packet of length >= 5 whose command is neither INIT_SEQ nor
\* SET_CLIENT_PORT and whose id equals the recorded last transaction id is
\* dropped: no reply, no bus access, session state, virtual device and reply
\* destination unchanged.
C1_DuplicateDropped ==
    ( /\ Parsed
      /\ ~IsReset(last_step.cmd)
      /\ last_step.pre.have
      /\ last_step.pre.recent = last_step.id )
    => ( /\ last_step.kind = "dup"
         /\ Silent
         /\ SessionUnchanged
         /\ DestinationUnchanged )

C1_Witness ==
    /\ last_step.kind = "dup"
    /\ last_step.cmd = CMD_WRITE_REG
    /\ last_step.pre.have
    /\ last_step.pre.recent = last_step.id
    /\ last_step.pre.i2c = 0

\* C2 as stated: between two INIT_SEQ / SET_CLIENT_PORT requests with another
\* id, a request with id T is executed and replied to at most once, also when
\* requests with other ids arrive in between.
C2_AtMostOncePerWindow == \A x \in IdValues : processed[x] <= 1

\* C2 amended: the engine remembers the most recent id only.  A request with
\* a command other than INIT_SEQ / SET_CLIENT_PORT is dropped, with no reply
\* and no state mutation, exactly when the request dequeued just before it
\* carried the same id; after a request with another id it is executed again.
C2_ConsecutiveDedup ==
    (Parsed /\ ~IsReset(last_step.cmd))
    => LET follows == prev_step.kind \in {"dup", "exec"} /\ prev_step.id = last_step.id
       IN  /\ (last_step.kind = "dup") <=> follows
           /\ follows => (Silent /\ SessionUnchanged)

C2_Witness ==
    /\ last_step.kind = "exec"
    /\ processed[last_step.id] = 2
    /\ prev_step.kind = "exec"
    /\ prev_step.id # last_step.id

\* C3: a packet of length >= 5 whose command is INIT_SEQ or SET_CLIENT_PORT is
\* always accepted and answered with error NONE, also when its id equals the
\* recorded last transaction id.
C3_ResetAlwaysAccepted ==
    (Parsed /\ IsReset(last_step.cmd))
    => ( /\ last_step.kind = "exec"
         /\ Len(sent) = 1
         /\ sent[1].data[6] = ERR_NONE )

C3_Witness ==
    /\ last_step.kind = "exec"
    /\ IsReset(last_step.cmd)
    /\ last_step.pre.have
    /\ last_step.pre.recent = last_step.id
    /\ Len(sent) = 1

\* C4: once INIT_SEQ with id T is processed the last transaction id is
\* present and equals T, and a packet with id T and a command other than
\* INIT_SEQ / SET_CLIENT_PORT that follows immediately is dropped as a
\* duplicate.
C4_InitThenSameIdDropped ==
    /\ (last_step.kind = "exec" /\ last_step.cmd = CMD_INIT_SEQ)
       => (m_have_most_recent_trans_id /\ m_most_recent_trans_id = last_step.id)
    /\ ( /\ prev_step.kind = "exec"
         /\ prev_step.cmd = CMD_INIT_SEQ
         /\ Parsed
         /\ last_step.id = prev_step.id
         /\ ~IsReset(last_step.cmd) )
       => (last_step.kind = "dup" /\ Silent)

C4_Witness ==
    /\ prev_step.kind = "exec"
    /\ prev_step.cmd = CMD_INIT_SEQ
    /\ last_step.kind = "dup"
    /\ last_step.id = prev_step.id
    /\ last_step.cmd = CMD_READ_REG

\* C5: when a request with id T2 was processed earlier and INIT_SEQ with
\* another id T1 has just been processed, a further request with id T2 is
\* executed again and replied to again.
C5_AcceptedAgainAfterInit ==
    ( /\ prev_step.kind = "exec"
      /\ prev_step.cmd = CMD_INIT_SEQ
      /\ Parsed
      /\ last_step.id # prev_step.id
      /\ last_step.id \in last_step.pre.executed )
    => ( /\ last_step.kind = "exec"
         /\ last_step.cmd \in KnownCommands => Len(sent) = 1 )

C5_Witness ==
    /\ prev_step.kind = "exec"
    /\ prev_step.cmd = CMD_INIT_SEQ
    /\ last_step.id # prev_step.id
    /\ last_step.id \in last_step.pre.executed
    /\ last_step.kind = "exec"
    /\ last_step.cmd = CMD_WRITE_REG
    /\ Len(sent) = 1

\* C6: a packet of length < 5 (length 0 included) produces no reply, no bus
\* access and leaves the session state and the virtual device unchanged.
C6_ShortPacketIgnored ==
    (last_step.kind # "none" /\ last_step.length < 5)
    => (last_step.kind = "short" /\ Silent /\ SessionUnchanged)

C6_Witness ==
    /\ last_step.kind = "short"
    /\ last_step.length = 0
    /\ last_step.pre.have

\* C7: a packet of length < 5 is not fatal: after it was dequeued the engine
\* task is still running.
C7_EngineSurvivesShortPacket ==
    (last_step.kind # "none" /\ last_step.length < 5) => engine_running

\* C8: a packet of length >= 5 with a command code outside 0..5 produces no
\* reply and no bus access and leaves bus address, virtual device and reply
\* destination unchanged.
C8_UnknownCommandSilent ==
    (Parsed /\ last_step.cmd \notin KnownCommands)
    => ( /\ Silent
         /\ m_i2c_address = last_step.pre.i2c
         /\ virtual_device = last_step.pre.vdev
         /\ DestinationUnchanged )

C8_Witness ==
    /\ last_step.kind = "exec"
    /\ last_step.cmd \notin KnownCommands
    /\ m_command = last_step.cmd

\* C9: every reply starts with the big-endian transaction id of the request
\* being answered, then that request's command code, then an error code in
\* 0..3.
C9_ReplyHeader ==
    \A i \in 1 .. Len(sent) :
        LET d == sent[i].data
        IN  /\ Len(d) >= 6
            /\ d[1] * 256 + d[2] = last_step.id.hi
            /\ d[3] * 256 + d[4] = last_step.id.lo
            /\ d[5] = last_step.cmd
            /\ d[6] \in {ERR_NONE, ERR_NOT_ENUF_DATA, ERR_I2C_WRITE, ERR_I2C_READ}

C9_Witness ==
    /\ Len(sent) = 1
    /\ last_step.id.hi >= 32768
    /\ prev_step.kind = "exec"
    /\ sent[1].data[6] = ERR_I2C_WRITE

\* C10: an accepted request with a known command causes exactly one reply,
\* on every path of WRITE_REG and READ_REG.
C10_ExactlyOneReply ==
    (last_step.kind = "exec" /\ last_step.cmd \in KnownCommands) => Len(sent) = 1

C10_Witness ==
    /\ last_step.kind = "exec"
    /\ last_step.cmd = CMD_WRITE_REG
    /\ Len(sent) = 1
    /\ sent[1].data[6] = ERR_NOT_ENUF_DATA

\* ------------------------------------------------------------------------
\* The register commands: a second set of requests for the same program
\* ------------------------------------------------------------------------
IdT3 == <<0, 0, 2, 0>>

\* 256 data bytes, none of them 0
Ramp256 == [i \in 1 .. 256 |-> (i % 251) + 1]

BusDatagrams ==
    { IdT3 \o <<2, 0>>,                                   \* SET_BUS_ADDRESS 0
      \* WRITE_REG: 0x10 <- AA BB, 0x01FF <- 05 06, 0x20 <- CC
      IdT2 \o <<3, 1, 16, 0, 2, 170, 187, 2, 1, 255, 0, 2, 5, 6, 1, 32, 0, 1, 204>>,
      \* WRITE_REG: 0x10 <- AA, then an entry that claims 4 bytes and has 3
      IdT2 \o <<3, 1, 16, 0, 1, 170, 1, 32, 0, 4, 1, 2, 3>>,
      IdT2 \o <<3, 1, 255, 0, 2, 5, 6>>,                  \* WRITE_REG: 0xFF <- 05 06
      IdT1 \o <<4, 2, 1, 255, 0, 2>> }                    \* READ_REG 0x01FF, length 2

NextBus ==
    \/ \E d \in BusDatagrams, from \in Senders : Receive(d, from)
    \/ EngineTask

SpecBus == Init /\ [][NextBus]_vars

\* ------------------------------------------------------------------------
\* Long transfers: a third set of requests for the same program
\* ------------------------------------------------------------------------
BigDatagrams ==
    { IdT3 \o <<2, 0>>,                                   \* SET_BUS_ADDRESS 0
      IdT2 \o <<3, 1, 5, 0, 4, 9, 8, 7, 6>>,              \* WRITE_REG 0x05, 4 bytes
      IdT2 \o <<3, 1, 128, 1, 0>> \o Ramp256,             \* WRITE_REG 0x80, 256 bytes
      IdT1 \o <<4, 1, 5, 0, 4>>,                          \* READ_REG 0x05, length 4
      IdT1 \o <<4, 1, 128, 1, 0>>,                        \* READ_REG 0x80, length 256
      IdT1 \o <<4, 1, 16, 3, 251>> }                      \* READ_REG 0x10, length 1019

NextBig ==
    \/ \E d \in BigDatagrams, from \in Senders : Receive(d, from)
    \/ EngineTask

SpecBig == Init /\ [][NextBig]_vars

\* ------------------------------------------------------------------------
\* Properties of the register commands, stated on the bytes of the request
\* ------------------------------------------------------------------------
\* the register address the bytes a[1..w] spell, most significant first,
\* as far as 32 bits hold it
AddressOf(a) ==
    LET w == Len(a)
        at(k) == IF w - k >= 1 THEN a[w - k] ELSE 0      \* k-th byte from the end
    IN  [hi |-> at(3) * 256 + at(2), lo |-> at(1) * 256 + at(0)]

\* the entries of a WRITE_REG request b from position i on: the well-formed
\* entries in order, and how the list ends ("end": the payload is used up,
\* "short": an entry declares more bytes than remain after its header,
\* "header": the payload ends inside an entry header)
RECURSIVE ParseEntries(_, _)
ParseEntries(b, i) ==
    IF i > Len(b) THEN [good |-> <<>>, tail |-> "end", reg |-> Word(0)]
    ELSE IF i + b[i] + 2 > Len(b) THEN [good |-> <<>>, tail |-> "header", reg |-> Word(0)]
    ELSE
      LET w == b[i]
          reg == AddressOf(SubSeq(b, i + 1, i + w))
          len == b[i + w + 1] * 256 + b[i + w + 2]
          first == i + w + 3
      IN  IF len > Len(b) - (first - 1)
          THEN [good |-> <<>>, tail |-> "short", reg |-> reg]
          ELSE LET rest == ParseEntries(b, first + len)
               IN  [rest EXCEPT !.good = <<[width |-> w, reg |-> reg,
                                            data |-> SubSeq(b, first, first + len - 1)]>> \o @]

\* the entries of the request the latest step dequeued
Entries == ParseEntries(last_step.bytes, 6)

\* the latest step executed a request with command cmd
Executed(cmd) == last_step.kind = "exec" /\ last_step.cmd = cmd

\* the bus write that carries entry e to the device at addr
WriteOp(addr, e, ok) ==
    [op |-> "write", addr |-> addr, reg |-> e.reg, width |-> e.width, data |-> e.data,
     ok |-> ok]

\* the bus writes of the entries es, all successful
WriteOps(addr, es) == [k \in 1 .. Len(es) |-> WriteOp(addr, es[k], TRUE)]

\* cell c of the virtual device after the entries es were written to v in order
RECURSIVE CellAfter(_, _, _)
CellAfter(v, es, c) ==
    IF es = <<>> THEN Peek(v, c)
    ELSE LET e == es[Len(es)]
             hits == { i \in 1 .. Len(e.data) : (e.reg.lo + i - 1) % 256 = c }
         IN  IF hits # {}
             THEN e.data[CHOOSE i \in hits : \A j \in hits : j <= i]
             ELSE CellAfter(v, SubSeq(es, 1, Len(es) - 1), c)

VdevAfter(v, es) == \A c \in 0 .. 255 : Peek(virtual_device, c) = CellAfter(v, es, c)

\* the latest step sent one reply: the id and command of the request, the
\* error code, then payload
RepliedWith(error_code, payload) ==
    /\ Len(sent) = 1
    /\ sent[1].data = SubSeq(last_step.bytes, 1, 5) \o <<error_code>> \o payload

AllBusOpsOk == \A k \in 1 .. Len(bus_log) : bus_log[k].ok

\* C11: a WRITE_REG payload made of well-formed entries causes one write per
\* entry, in payload order, each with the entry's register address and
\* exactly its data bytes (on the bus, or on the virtual device when the bus
\* address is 0), followed by a single reply with error NONE.
C11_OneWritePerEntry ==
    (Executed(CMD_WRITE_REG) /\ Entries.tail = "end" /\ AllBusOpsOk)
    => /\ RepliedWith(ERR_NONE, <<>>)
       /\ IF last_step.pre.i2c # 0
          THEN bus_log = WriteOps(last_step.pre.i2c, Entries.good)
               /\ virtual_device = last_step.pre.vdev
          ELSE bus_log = <<>>
               /\ VdevAfter(last_step.pre.vdev, Entries.good)

C11_Witness ==
    /\ Executed(CMD_WRITE_REG)
    /\ Entries.tail = "end"
    /\ Len(Entries.good) = 3
    /\ last_step.pre.i2c # 0
    /\ Len(bus_log) = 3
    /\ AllBusOpsOk
    /\ Len(sent) = 1

\* C12: when an entry of a WRITE_REG request declares more data bytes than
\* remain after its header, the single reply carries NOT_ENUF_DATA; the
\* entries before it were written, no write is issued for that entry and
\* nothing after it is processed.
C12_NotEnoughData ==
    (Executed(CMD_WRITE_REG) /\ Entries.tail = "short" /\ AllBusOpsOk)
    => /\ RepliedWith(ERR_NOT_ENUF_DATA, <<>>)
       /\ IF last_step.pre.i2c # 0
          THEN bus_log = WriteOps(last_step.pre.i2c, Entries.good)
               /\ virtual_device = last_step.pre.vdev
          ELSE bus_log = <<>>
               /\ VdevAfter(last_step.pre.vdev, Entries.good)

C12_Witness ==
    /\ Executed(CMD_WRITE_REG)
    /\ Entries.tail = "short"
    /\ Len(Entries.good) = 1
    /\ last_step.pre.i2c # 0
    /\ Len(bus_log) = 1
    /\ AllBusOpsOk
    /\ Len(sent) = 1
    /\ sent[1].data[6] = ERR_NOT_ENUF_DATA

\* C13: when the bus write of an entry fails, that write is the last bus
\* operation of the request and was issued once; the entries before it were
\* written, none after it; the single reply carries BUS_WRITE_FAIL and one
\* payload byte, the low byte of the entry's register address.
C13_BusWriteFailStops ==
    (Executed(CMD_WRITE_REG) /\ ~AllBusOpsOk)
    => LET n == Len(bus_log)
           es == Entries.good
           addr == last_step.pre.i2c
       IN  /\ addr # 0
           /\ n <= Len(es)
           /\ \A k \in 1 .. (n - 1) : bus_log[k] = WriteOp(addr, es[k], TRUE)
           /\ bus_log[n] = WriteOp(addr, es[n], FALSE)
           /\ RepliedWith(ERR_I2C_WRITE, <<es[n].reg.lo % 256>>)
           /\ virtual_device = last_step.pre.vdev

C13_Witness ==
    /\ Executed(CMD_WRITE_REG)
    /\ Len(Entries.good) = 3
    /\ Len(bus_log) = 2
    /\ bus_log[1].ok
    /\ ~bus_log[2].ok
    /\ bus_log[2].reg = [hi |-> 0, lo |-> 511]
    /\ Len(sent) = 1
    /\ sent[1].data = IdT2 \o <<CMD_WRITE_REG, ERR_I2C_WRITE, 255>>

\* the latest request read as a READ_REG request: register width, register
\* address and the declared length
ReadRequest ==
    LET b == last_step.bytes
        w == b[6]
    IN  [width |-> w, reg |-> AddressOf(SubSeq(b, 7, 6 + w)),
         len |-> b[7 + w] * 256 + b[8 + w]]

\* the latest step executed a READ_REG request that holds its whole header
ExecutedRead ==
    /\ Executed(CMD_READ_REG)
    /\ Len(last_step.bytes) >= 6
    /\ Len(last_step.bytes) >= 8 + last_step.bytes[6]

\* the bus operation that selects register q.reg on the device at addr
SetRegOp(addr, q, ok) ==
    [op |-> "write", addr |-> addr, reg |-> q.reg, width |-> q.width, data |-> <<>>,
     ok |-> ok]

\* rd is a read of q.len bytes from the device at addr, after q.reg was selected
IsReadOp(rd, addr, q, ok) ==
    /\ rd.op = "read"
    /\ rd.addr = addr
    /\ rd.reg = q.reg
    /\ Len(rd.data) = q.len
    /\ rd.ok = ok

\* C14 as stated: a READ_REG whose bus access does not fail performs one
\* addressed read of L bytes at the decoded register address and sends one
\* reply of 6 + L bytes, error NONE followed by exactly the bytes read, for
\* every L the two length bytes can spell.
C14_ReadReplyExact ==
    (ExecutedRead /\ AllBusOpsOk)
    => LET q == ReadRequest
           addr == last_step.pre.i2c
       IN  /\ Len(sent) = 1
           /\ Len(sent[1].data) = 6 + q.len
           /\ IF addr # 0
              THEN /\ Len(bus_log) = 2
                   /\ bus_log[1] = SetRegOp(addr, q, TRUE)
                   /\ IsReadOp(bus_log[2], addr, q, TRUE)
                   /\ RepliedWith(ERR_NONE, bus_log[2].data)
              ELSE /\ bus_log = <<>>
                   /\ RepliedWith(ERR_NONE,
                          [i \in 1 .. q.len |->
                              Peek(last_step.pre.vdev, (q.reg.lo + i - 1) % 256)])

C16_VirtualRoundTrip ==
    LET es == ParseEntries(prev_step.bytes, 6)
    IN  ( /\ ExecutedRead
          /\ last_step.pre.i2c = 0
          /\ prev_step.kind = "exec"
          /\ prev_step.cmd = CMD_WRITE_REG
          /\ es.tail = "end"
          /\ Len(es.good) = 1
          /\ Len(es.good[1].data) \in 1 .. 256
          /\ ReadRequest.reg = es.good[1].reg
          /\ ReadRequest.len = Len(es.good[1].data) )
        => RepliedWith(ERR_NONE, es.good[1].data)

C16_Witness ==
    /\ ExecutedRead
    /\ last_step.pre.i2c = 0
    /\ prev_step.kind = "exec"
    /\ prev_step.cmd = CMD_WRITE_REG
    /\ ParseEntries(prev_step.bytes, 6).good[1].data = Ramp256
    /\ ReadRequest.reg = [hi |-> 0, lo |-> 128]
    /\ ReadRequest.len = 256
    /\ Len(sent) = 1
    /\ Len(sent[1].data) = 262

\* C17: on the virtual device byte i of an access at register R acts on cell
\* (R + i) mod 256, whatever the width of R: no cell outside 0 .. 255 is ever
\* touched, a write changes the cells its entries name and no other, and a
\* read returns the cells (R + i) mod 256.
C17_VirtualWraparound ==
    /\ DOMAIN virtual_device \subseteq 0 .. 255
    /\ (Executed(CMD_WRITE_REG) /\ last_step.pre.i2c = 0 /\ Entries.tail # "header")
       => \A c \in 0 .. 255 :
              Peek(virtual_device, c) = CellAfter(last_step.pre.vdev, Entries.good, c)
    /\ (ExecutedRead /\ last_step.pre.i2c = 0)
       => /\ Len(sent) = 1
          /\ Len(sent[1].data) = 6 + ReadRequest.len
          /\ \A i \in 1 .. ReadRequest.len :
                 sent[1].data[6 + i] =
                     Peek(last_step.pre.vdev, (ReadRequest.reg.lo + i - 1) % 256)

\* a write of length 2 at 0xFF to the untouched device: cells 0xFF and 0x00
C17_Witness ==
    /\ Executed(CMD_WRITE_REG)
    /\ last_step.pre.i2c = 0
    /\ last_step.pre.vdev = <<>>
    /\ last_step.bytes = IdT2 \o <<3, 1, 255, 0, 2, 5, 6>>
    /\ DOMAIN virtual_device = {0, 255}
    /\ virtual_device[255] = 5
    /\ virtual_device[0] = 6

\* the error code of the k-th reply of the latest step
ReplyError(k) == sent[k].data[6]

\* C18: routing depends on the bus address only.  With bus address 0 a
\* request never reaches the real bus and is never answered BUS_WRITE_FAIL or
\* BUS_READ_FAIL; with any other bus address every write entry and every read
\* goes to the real bus and the virtual device keeps its contents.
C18_RoutingByBusAddress ==
    last_step.kind # "none"
    => IF last_step.pre.i2c = 0
       THEN /\ bus_log = <<>>
            /\ \A k \in 1 .. Len(sent) : ReplyError(k) \notin {ERR_I2C_WRITE, ERR_I2C_READ}
       ELSE /\ virtual_device = last_step.pre.vdev
            /\ (Executed(CMD_WRITE_REG) /\ Entries.good # <<>>) => bus_log # <<>>
            /\ ExecutedRead => bus_log # <<>>
            /\ \A k \in 1 .. Len(bus_log) : bus_log[k].addr = last_step.pre.i2c

C18_Witness ==
    /\ Executed(CMD_WRITE_REG)
    /\ last_step.pre.i2c = 0
    /\ Len(Entries.good) = 3
    /\ bus_log = <<>>
    /\ virtual_device # last_step.pre.vdev
    /\ Len(sent) = 1
    /\ ReplyError(1) = ERR_NONE

\* ------------------------------------------------------------------------
\* The bus address: a fourth set of requests for the same program
\* ------------------------------------------------------------------------
AddrDatagrams ==
    { IdT3 \o <<2, 80>>,                                  \* SET_BUS_ADDRESS 0x50
      IdT3 \o <<2, 0>>,                                   \* SET_BUS_ADDRESS 0
      IdT1 \o <<0>>,                                      \* INIT_SEQ
      IdT1 \o <<1, 35, 40>>,                              \* SET_CLIENT_PORT 9000
      IdT1 \o <<4, 1, 16, 0, 2>>,                         \* READ_REG 0x10, length 2
      IdT2 \o <<3, 1, 16, 0, 2, 170, 187>>,               \* WRITE_REG 0x10 <- AA BB
      IdT2 \o <<6>>,                                      \* unknown command
      <<0, 0, 1>> }                                       \* too short

NextAddr ==
    \/ \E d \in AddrDatagrams, from \in Senders : Receive(d, from)
    \/ EngineTask

SpecAddr == Init /\ [][NextAddr]_vars

\* the step before the latest executed SET_BUS_ADDRESS with a payload byte
PrevSetAddress ==
    /\ prev_step.kind = "exec"
    /\ prev_step.cmd = CMD_I2C_ADDR
    /\ Len(prev_step.bytes) >= 6

\* C19: the bus address is 0x62 until a request is processed; an executed
\* SET_BUS_ADDRESS sets it to its payload byte and is answered with error
\* NONE; no other step (another command, a dropped duplicate, a packet that
\* is too short or holds an unknown command) changes it; the bus operations
\* of a step go to the address in force, which after a SET_BUS_ADDRESS is the
\* byte it carried.
C19_BusAddress ==
    /\ last_step.kind = "none" => m_i2c_address = 98
    /\ (Executed(CMD_I2C_ADDR) /\ Len(last_step.bytes) >= 6)
       => /\ m_i2c_address = last_step.bytes[6]
          /\ RepliedWith(ERR_NONE, <<>>)
    /\ (last_step.kind # "none" /\ ~Executed(CMD_I2C_ADDR))
       => m_i2c_address = last_step.pre.i2c
    /\ \A k \in 1 .. Len(bus_log) : bus_log[k].addr = last_step.pre.i2c
    /\ PrevSetAddress
       => /\ last_step.pre.i2c = prev_step.bytes[6]
          /\ \A k \in 1 .. Len(bus_log) : bus_log[k].addr = prev_step.bytes[6]

C19_Witness ==
    /\ PrevSetAddress
    /\ prev_step.bytes[6] = 80
    /\ Executed(CMD_WRITE_REG)
    /\ Len(bus_log) = 1
    /\ bus_log[1].addr = 80
    /\ m_i2c_address = 80

\* ------------------------------------------------------------------------
\* The hand-off queue: one request sent over and over
\* ------------------------------------------------------------------------
QueueDatagrams == { IdT1 \o <<0>> }                       \* INIT_SEQ
QueueSenders == { [ip |-> 10, port |-> 5000], [ip |-> 11, port |-> 6000] }

ReceiveQueue(d, from) == nrecv < MaxRecvQueue /\ RecvFrom(d, from)

NextQueue ==
    \/ \E d \in QueueDatagrams, from \in QueueSenders : ReceiveQueue(d, from)
    \/ EngineTask

SpecQueue == Init /\ [][NextQueue]_vars

\* a step of the receive loop
ReceiveStep == nrecv' = nrecv + 1

\* C20: the queue never holds more than 50 descriptors.  A receive that
\* finds 50 descriptors queued leaves the queue exactly as it was (the new
\* datagram is dropped) and completes like any other receive, so the loop is
\* back at recvfrom; a receive that finds fewer appends the new descriptor
\* behind the queued ones.
C20_DropNewest ==
    /\ [](Len(m_event_queue) <= 50)
    /\ [][ReceiveStep =>
            IF Len(m_event_queue) >= 50
            THEN /\ m_event_queue' = m_event_queue
                 /\ next_in' # next_in
                 /\ UNCHANGED engine_vars
            ELSE /\ Len(m_event_queue') = Len(m_event_queue) + 1
                 /\ SubSeq(m_event_queue', 1, Len(m_event_queue)) = m_event_queue
                 /\ m_event_queue'[Len(m_event_queue')].buffer = next_in]_vars

\* two datagrams were dropped while the engine had not run yet
C20_Witness ==
    /\ Len(m_event_queue) = 50
    /\ nrecv = 52
    /\ last_step.kind = "none"

\* ------------------------------------------------------------------------
\* Order of processing
\* ------------------------------------------------------------------------
\* In runs that do not reach the end of rolling_buffer a datagram that
\* arrives later is stored at a higher offset, so the offsets of the
\* descriptors tell the order of arrival.
\* C21: the queued descriptors stand in arrival order; the request the engine
\* processed last arrived before every queued one and after the one processed
\* before it; the replies and bus operations of a step are those of the one
\* request it dequeued, at most one reply, carrying that request's id and
\* command.
C21_ArrivalOrder ==
    /\ \A i, j \in 1 .. Len(m_event_queue) :
           i < j => m_event_queue[i].buffer < m_event_queue[j].buffer
    /\ last_step.kind # "none"
       => \A i \in 1 .. Len(m_event_queue) : last_step.buffer < m_event_queue[i].buffer
    /\ prev_step.kind # "none" => prev_step.buffer < last_step.buffer
    /\ Len(sent) <= 1
    /\ \A k \in 1 .. Len(sent) :
           SubSeq(sent[k].data, 1, 5) = SubSeq(last_step.bytes, 1, 5)
    /\ bus_log # <<>>
       => \/ /\ Executed(CMD_WRITE_REG)
             /\ Len(bus_log) <= Len(Entries.good)
             /\ \A k \in 1 .. Len(bus_log) :
                    /\ bus_log[k].op = "write"
                    /\ bus_log[k].reg = Entries.good[k].reg
                    /\ bus_log[k].data = Entries.good[k].data
          \/ /\ ExecutedRead
             /\ \A k \in 1 .. Len(bus_log) : bus_log[k].reg = ReadRequest.reg

C21_Witness ==
    /\ Len(m_event_queue) = 1
    /\ prev_step.kind = "exec"
    /\ last_step.kind = "exec"
    /\ prev_step.buffer < last_step.buffer
    /\ last_step.buffer < m_event_queue[1].buffer
    /\ Len(sent) = 1
    /\ bus_log # <<>>

\* ------------------------------------------------------------------------
\* The ring buffer: long datagrams that take the cursor to the end of
\* rolling_buffer
\* ------------------------------------------------------------------------
\* head followed by zero bytes up to n bytes in all
Padded(head, n) == head \o [i \in 1 .. (n - Len(head)) |-> 0]

\* the first RingFill datagrams are INIT_SEQ requests of 1000 bytes; after
\* them come requests of 600, 1000 and 1500 bytes
RingDatagrams(n) ==
    IF n < RingFill
    THEN { Padded(IdT1 \o <<0>>, 1000) }
    ELSE { Padded(IdT1 \o <<0>>, 1000), Padded(IdT2 \o <<0>>, 600),
           Padded(IdT2 \o <<0>>, 1500) }

ReceiveRing(d, from) == nrecv < MaxRecvRing /\ RecvFrom(d, from)

NextRing ==
    \/ \E d \in RingDatagrams(nrecv), from \in Senders : ReceiveRing(d, from)
    \/ EngineTask

SpecRing == Init /\ [][NextRing]_vars

\* the byte ranges [a, a + m) and [b, b + n) share no byte
Disjoint(a, m, b, n) == a + m <= b \/ b + n <= a

\* the descriptors that were queued when the latest datagram was received
QueuedBefore ==
    1 .. (Len(m_event_queue) - (IF last_recv.queued /\ m_event_queue # <<>> THEN 1 ELSE 0))

\* C22 as stated: whatever the interleaving, the latest datagram was not
\* stored over bytes that a descriptor still in the queue refers to.
C22_NoOverwrite ==
    \A i \in QueuedBefore :
        Disjoint(last_recv.at, last_recv.length,
                 m_event_queue[i].buffer, m_event_queue[i].length)

\* ------------------------------------------------------------------------
\* The reply destination
\* ------------------------------------------------------------------------
\* C23 as stated: the acknowledgement of an executed SET_CLIENT_PORT with
\* port P goes to the address of the last sender and to port P, whatever
\* port the request came from.
C23_ReplyToClientPort ==
    (Executed(CMD_CLIENT_PORT) /\ Len(last_step.bytes) >= 7)
    => /\ Len(sent) = 1
       /\ sent[1].ip = last_step.pre.src.ip
       /\ sent[1].port = last_step.bytes[6] * 256 + last_step.bytes[7]

\* ------------------------------------------------------------------------
\* CUDPServer::task from its first statement: socket, bind, failed recvfrom
\* ------------------------------------------------------------------------
\* the state after CEngine::begin and CUDPServer::begin, before the server
\* task has run (next_in and buffer_remaining are not yet initialised and
\* not read before TaskStart sets them)
InitBoot ==
    /\ m_have_most_recent_trans_id = FALSE
    /\ m_most_recent_trans_id = Word(0)
    /\ m_command = 0
    /\ m_i2c_address = DEFAULT_I2C_ADDRESS
    /\ virtual_device = <<>>
    /\ engine_running = TRUE
    /\ m_event_queue = <<>>
    /\ rolling_buffer = <<>>
    /\ next_in = 0
    /\ buffer_remaining = ROLLING_BUFFER_SIZE
    /\ source_addr = [ip |-> 0, port |-> 0]
    /\ nrecv = 0
    /\ sent = <<>>
    /\ bus_log = <<>>
    /\ processed = [x \in IdValues |-> 0]
    /\ udp_task = "boot"
    /\ task_log = <<>>
    /\ m_is_running = TRUE
    /\ sock = -1
    /\ os_calls = [created |-> 1, deleted |-> 0, opened |-> 0, closed |-> 0,
                   last |-> "begin", before |-> "none"]
    /\ last_recv = [from |-> [ip |-> 0, port |-> 0], length |-> 0, at |-> 0,
                    room |-> ROLLING_BUFFER_SIZE, queued |-> FALSE]
    /\ last_step = [kind |-> "none", length |-> 0, id |-> Word(0), cmd |-> 0,
                    bytes |-> <<>>, buffer |-> 0, errors |-> <<>>,
                    pre |-> [have |-> FALSE, recent |-> Word(0), command |-> 0,
                             i2c |-> DEFAULT_I2C_ADDRESS, vdev |-> <<>>,
                             src |-> [ip |-> 0, port |-> 0],
                             executed |-> {}],
                    src_after |-> [ip |-> 0, port |-> 0],
                    read_end |-> 0, loops |-> 0]
    /\ executed = {}
    /\ prev_step = [kind |-> "none", length |-> 0, id |-> Word(0), cmd |-> 0,
                    bytes |-> <<>>, buffer |-> 0, errors |-> <<>>]

\* what socket() and bind() can do
StartOutcomes == {"ok", "socket failed", "bind failed"}

\* "if (sock < 0) { ESP_LOGE(...); return; }", "if (err < 0) { ESP_LOGE(...); return; }"
StartLine(outcome) ==
    IF outcome = "socket failed" THEN <<"Unable to create socket">>
    ELSE IF outcome = "bind failed" THEN <<"Socket unable to bind">>
    ELSE <<>>
StartNext(outcome) == IF outcome = "ok" THEN "listening" ELSE "ended"

\* "sock = socket(AF_INET, SOCK_DGRAM, IPPROTO_IP);": a failed bind leaves the
\* socket open
StartSock(outcome) == IF outcome = "socket failed" THEN -1 ELSE OpenSocket

\* CUDPServer::task up to its while loop
TaskStart(outcome) ==
    /\ udp_task = "boot"
    /\ udp_task' = StartNext(outcome)
    /\ task_log' = task_log \o StartLine(outcome)
    /\ IF outcome = "ok"
       THEN next_in' = 0 /\ buffer_remaining' = ROLLING_BUFFER_SIZE
       ELSE UNCHANGED <<next_in, buffer_remaining>>
    /\ sock' = StartSock(outcome)
    /\ os_calls' = [os_calls EXCEPT !.opened = IF StartSock(outcome) # -1 THEN @ + 1 ELSE @]
    /\ UNCHANGED <<engine_vars, m_event_queue, rolling_buffer, source_addr, nrecv,
                   observe_vars, last_recv, m_is_running>>

\* "if (length < 0) { ESP_LOGE(...); continue; }"
RecvErrorNext_Return == "ended"
RecvErrorNext == "listening"

\* one iteration of the receive loop in which recvfrom fails
RecvFail ==
    /\ udp_task = "listening"
    /\ Len(SelectSeq(task_log, LAMBDA l : l = "recvfrom failed")) < MaxRecvFail
    /\ task_log' = Append(task_log, "recvfrom failed")
    /\ udp_task' = RecvErrorNext
    /\ UNCHANGED <<engine_vars, m_event_queue, server_vars, source_addr, nrecv,
                   observe_vars, last_recv, ctl_vars>>

FaultDatagrams ==
    { IdT1 \o <<0>>,                                      \* INIT_SEQ
      IdT2 \o <<5>>,                                      \* GET_FWREV
      IdT1 \o <<4, 1, 16, 0, 2>> }                        \* READ_REG 0x10, length 2

NextFault ==
    \/ \E outcome \in StartOutcomes : TaskStart(outcome)
    \/ \E d \in FaultDatagrams, from \in Senders : Receive(d, from)
    \/ RecvFail
    \/ EngineTask

SpecFault == InitBoot /\ [][NextFault]_vars

\* a step in which the server task logs a failed recvfrom
FailStep == task_log' = Append(task_log, "recvfrom failed")

\* C24: a failed receive hands nothing to the engine, leaves the ring
\* buffer, its write cursor and the remaining-capacity counter as they were,
\* and the server task is back in its loop, ready for the next datagram.
C24_FailedReceiveSkipped ==
    [][FailStep =>
          /\ udp_task' = "listening"
          /\ UNCHANGED <<m_event_queue, rolling_buffer, next_in, buffer_remaining>>
          /\ UNCHANGED engine_vars]_vars

\* a datagram was received and queued after a failed receive
C24_Witness ==
    /\ Len(task_log) >= 2
    /\ task_log[Len(task_log) - 1] = "recvfrom failed"
    /\ task_log[Len(task_log)] = "Rcvd"
    /\ last_recv.queued
    /\ udp_task = "listening"

\* C25 as stated: after a socket creation or bind failure was logged the
\* server task is still alive and receiving.
C25_StartFaultSurvived ==
    (\E k \in 1 .. Len(task_log) :
         task_log[k] \in {"Unable to create socket", "Socket unable to bind"})
    => udp_task = "listening"

\* ------------------------------------------------------------------------
\* GET_FW_REV
\* ------------------------------------------------------------------------
\* the number the bytes of p spell, most significant first
RECURSIVE BigEndianValue(_)
BigEndianValue(p) ==
    IF p = <<>> THEN 0
    ELSE BigEndianValue(SubSeq(p, 1, Len(p) - 1)) * 256 + p[Len(p)]

C27_CursorInvariant ==
    /\ next_in \in 0 .. 19999
    /\ next_in + buffer_remaining = 20000
    /\ buffer_remaining >= 1024
    /\ \A o \in DOMAIN rolling_buffer : o \in 0 .. 19999
    /\ nrecv > 0
       => /\ last_recv.length <= last_recv.room
          /\ last_recv.at + last_recv.length <= 20000
          /\ IF last_recv.room - last_recv.length < 1024
             THEN next_in = 0 /\ buffer_remaining = 20000
             ELSE /\ next_in = last_recv.at + last_recv.length
                  /\ buffer_remaining = last_recv.room - last_recv.length

\* a datagram of 1500 bytes met 1400 free bytes: it was cut and the cursor
\* went back to the start
C27_Witness ==
    /\ last_recv.at = 18600
    /\ last_recv.room = 1400
    /\ last_recv.length = 1400
    /\ next_in = 0
    /\ buffer_remaining = 20000

\* ------------------------------------------------------------------------
\* Datagrams dropped at the full queue
\* ------------------------------------------------------------------------
\* C28: a datagram received while the queue holds 50 descriptors is not
\* queued, yet it is stored in the ring buffer, its sender becomes the reply
\* destination and the cursor moves past it, as for a queued datagram.
C28_DroppedStillReceived ==
    [][(ReceiveStep /\ Len(m_event_queue) >= 50)
       => /\ ~last_recv'.queued
          /\ m_event_queue' = m_event_queue
          /\ source_addr' = last_recv'.from
          /\ last_recv'.at = next_in
          /\ last_recv'.length = 5
          /\ \A i \in 1 .. 5 :
                 Peek(rolling_buffer', next_in + i - 1) = (IdT1 \o <<0>>)[i]
          /\ next_in' = next_in + 5
          /\ buffer_remaining' = buffer_remaining - 5]_vars

\* the engine answered a request of sender 10, then a datagram of sender 11
\* found the queue full
C28_Witness ==
    /\ nrecv = 52
    /\ ~last_recv.queued
    /\ Len(m_event_queue) = 50
    /\ last_step.kind = "exec"
    /\ last_step.src_after.ip = 10
    /\ source_addr = [ip |-> 11, port |-> 6000]
    /\ next_in = 260

\* ------------------------------------------------------------------------
\* What is recorded of a request that is not answered with success
\* ------------------------------------------------------------------------
\* the latest request carries the id of the request processed just before it
\* and a known command other than INIT_SEQ / SET_CLIENT_PORT
RetransmissionOfPrev ==
    /\ Parsed
    /\ prev_step.kind = "exec"
    /\ last_step.id = prev_step.id
    /\ last_step.cmd \in KnownCommands
    /\ ~IsReset(last_step.cmd)

\* C29: a packet with an unknown command is recorded before dispatch (its id
\* becomes the most recent id and its command the current command) and
\* causes no reply and no bus access; a request with the same id and a known
\* command other than INIT_SEQ / SET_CLIENT_PORT that comes right after it
\* is dropped as a duplicate.
C29_UnknownCommandRecorded ==
    /\ (last_step.kind = "exec" /\ last_step.cmd \notin KnownCommands)
       => /\ m_have_most_recent_trans_id
          /\ m_most_recent_trans_id = last_step.id
          /\ m_command = last_step.cmd
          /\ Silent
    /\ (RetransmissionOfPrev /\ prev_step.cmd \notin KnownCommands)
       => /\ last_step.kind = "dup"
          /\ Silent
          /\ SessionUnchanged

C29_Witness ==
    /\ prev_step.kind = "exec"
    /\ prev_step.cmd = 6
    /\ prev_step.errors = <<>>
    /\ last_step.kind = "dup"
    /\ last_step.cmd = CMD_WRITE_REG
    /\ last_step.id = prev_step.id
    /\ m_command = 6

\* C30: a request answered with NOT_ENUF_DATA, BUS_WRITE_FAIL or
\* BUS_READ_FAIL is answered once and its id is recorded; the same request
\* sent again right after it is dropped: no reply, no bus operation.
C30_ErrorReportedOnce ==
    /\ (last_step.kind = "exec" /\ last_step.errors # <<>>
        /\ last_step.errors[1] \in {ERR_NOT_ENUF_DATA, ERR_I2C_WRITE, ERR_I2C_READ})
       => /\ Len(sent) = 1
          /\ m_have_most_recent_trans_id
          /\ m_most_recent_trans_id = last_step.id
    /\ (RetransmissionOfPrev /\ prev_step.errors # <<>>
        /\ prev_step.errors[1] \in {ERR_NOT_ENUF_DATA, ERR_I2C_WRITE, ERR_I2C_READ})
       => /\ last_step.kind = "dup"
          /\ Silent
          /\ SessionUnchanged

\* the write that failed on the bus is sent again and dropped
C30_Witness ==
    /\ prev_step.kind = "exec"
    /\ prev_step.errors = <<ERR_I2C_WRITE>>
    /\ last_step.kind = "dup"
    /\ last_step.bytes = prev_step.bytes
    /\ last_step.pre.i2c # 0
    /\ bus_log = <<>>
    /\ sent = <<>>

\* ------------------------------------------------------------------------
\* WRITE_REG requests that fail part-way
\* ------------------------------------------------------------------------
\* the bus operations of the latest step that succeeded
Done == Cardinality({ k \in 1 .. Len(bus_log) : bus_log[k].ok })

\* the latest step executed a WRITE_REG request and answered it with an error
WriteFailed ==
    /\ Executed(CMD_WRITE_REG)
    /\ Len(sent) = 1
    /\ ReplyError(1) \in {ERR_NOT_ENUF_DATA, ERR_I2C_WRITE}

\* C31: no rollback in WRITE_REG.  When entry k of a request fails (not
\* enough data, or the bus write fails), the writes of entries 1 .. k-1 were
\* issued and stay in effect (on the virtual device their bytes stay
\* written), and no entry after k is written.
C31_NoRollback ==
    WriteFailed
    => LET es == Entries.good
           addr == last_step.pre.i2c
       IN  IF addr # 0
           THEN /\ Done <= Len(es)
                /\ \A k \in 1 .. Done : bus_log[k] = WriteOp(addr, es[k], TRUE)
                /\ IF ReplyError(1) = ERR_I2C_WRITE
                   THEN /\ Len(bus_log) = Done + 1
                        /\ Done < Len(es)
                        /\ bus_log[Done + 1] = WriteOp(addr, es[Done + 1], FALSE)
                   ELSE /\ Len(bus_log) = Done
                        /\ Done = Len(es)
                /\ virtual_device = last_step.pre.vdev
           ELSE /\ ReplyError(1) = ERR_NOT_ENUF_DATA
                /\ bus_log = <<>>
                /\ VdevAfter(last_step.pre.vdev, es)

\* on the virtual device: the byte of the first entry stays written although
\* the second entry was refused
C31_Witness ==
    /\ WriteFailed
    /\ last_step.pre.i2c = 0
    /\ last_step.pre.vdev = <<>>
    /\ last_step.bytes = IdT2 \o <<3, 1, 16, 0, 1, 170, 1, 32, 0, 4, 1, 2, 3>>
    /\ ReplyError(1) = ERR_NOT_ENUF_DATA
    /\ DOMAIN virtual_device = {16}
    /\ virtual_device[16] = 170

\* ------------------------------------------------------------------------
\* Register widths: a set of requests with register numbers of 1 to 4 bytes
\* ------------------------------------------------------------------------
WidthDatagrams ==
    { \* WRITE_REG: 0x10 <- AA, 0x01FF <- BB, 0x010203 <- 05 06, 0x81020304 <- CC
      IdT2 \o <<3, 1, 16, 0, 1, 170, 2, 1, 255, 0, 1, 187,
                3, 1, 2, 3, 0, 2, 5, 6, 4, 129, 2, 3, 4, 0, 1, 204>>,
      IdT1 \o <<4, 1, 16, 0, 2>>,                         \* READ_REG 0x10, length 2
      IdT1 \o <<4, 2, 1, 255, 1, 0>>,                     \* READ_REG 0x01FF, length 256
      IdT1 \o <<4, 3, 1, 2, 3, 0, 1>>,                    \* READ_REG 0x010203, length 1
      IdT1 \o <<4, 4, 129, 2, 3, 4, 0, 3>> }              \* READ_REG 0x81020304, length 3

NextWidth ==
    \/ \E d \in WidthDatagrams, from \in Senders : Receive(d, from)
    \/ EngineTask

SpecWidth == Init /\ [][NextWidth]_vars

\* the widths a register number may have
RegWidths == 1 .. 4

\* C32: for every register width W in 1 .. 4 of a WRITE_REG entry or a
\* READ_REG request, the bus operation gets as register address the value of
\* the W address bytes after the width byte, most significant first, as
\* length the value of the next two bytes, most significant first, and as
\* width W.
C32_RegisterDecoding ==
    /\ (Executed(CMD_WRITE_REG) /\ last_step.pre.i2c # 0)
       => \A k \in 1 .. Len(bus_log) :
              (k <= Len(Entries.good) /\ Entries.good[k].width \in RegWidths)
              => /\ bus_log[k].op = "write"
                 /\ bus_log[k].width = Entries.good[k].width
                 /\ bus_log[k].reg = Entries.good[k].reg
                 /\ bus_log[k].data = Entries.good[k].data
    /\ (ExecutedRead /\ last_step.pre.i2c # 0 /\ ReadRequest.width \in RegWidths)
       => /\ bus_log # <<>>
          /\ bus_log[1].width = ReadRequest.width
          /\ bus_log[1].reg = ReadRequest.reg
          /\ Len(bus_log) = 2 => /\ bus_log[2].op = "read"
                                 /\ Len(bus_log[2].data) = ReadRequest.len

\* the four-byte register number 0x81020304 reaches the bus
C32_Witness ==
    /\ Executed(CMD_WRITE_REG)
    /\ Len(bus_log) = 4
    /\ bus_log[3].width = 3
    /\ bus_log[3].reg = [hi |-> 1, lo |-> 515]
    /\ bus_log[3].data = <<5, 6>>
    /\ bus_log[4].width = 4
    /\ bus_log[4].reg = [hi |-> 33026, lo |-> 772]
    /\ prev_step.cmd = CMD_READ_REG
    /\ prev_step.bytes = IdT1 \o <<4, 2, 1, 255, 1, 0>>

\* ------------------------------------------------------------------------
\* The two tasks share source_addr without a lock.  CUDPServer::reply runs in
\* the engine's task: it stores the port, prints a line, then calls sendto.
\* CUDPServer::task may complete a recvfrom, which rewrites source_addr, at
\* any point of that.
\* ------------------------------------------------------------------------
ClientA == [ip |-> 10, port |-> 5000]
ClientB == [ip |-> 11, port |-> 6000]

\* each client uses a transaction id of its own
RaceRequests ==
    { [from |-> ClientA, d |-> IdT1 \o <<0>>],                   \* INIT_SEQ
      [from |-> ClientA, d |-> IdT1 \o <<5>>],                   \* GET_FWREV
      [from |-> ClientA, d |-> IdT1 \o <<4, 1, 16, 0, 2>>],      \* READ_REG
      [from |-> ClientB, d |-> IdT2 \o <<0>>],                   \* INIT_SEQ
      [from |-> ClientB, d |-> IdT2 \o <<3, 1, 16, 0, 2, 170, 187>> ] }

\* the client that uses transaction id id
ClientOf(id) == IF id = [hi |-> 0, lo |-> 1] THEN ClientA ELSE ClientB

\* One iteration of the loop of CEngine::task whose reply is overtaken: the
\* handler has stored SERVER_PORT in source_addr, recvfrom of datagram d from
\* "from" completes in the other task, then sendto reads source_addr.
EngineTaskPreempted(d, from) ==
    /\ engine_running
    /\ m_event_queue # <<>>
    /\ udp_task = "listening"
    /\ nrecv < MaxRecv
    /\ LET packet == Head(m_event_queue)
           length == Min(Len(d), buffer_remaining)
       IN  \E wfail \in WriteFailChoices(packet),
              rstat \in ReadStatusChoices(packet),
              seed \in ReadSeedChoices(packet) :
           \E r \in {TaskBody(packet, wfail, rstat, seed)} :
             /\ Len(r.sent) = 1
             /\ ~r.overrun
             /\ m_have_most_recent_trans_id' = r.have
             /\ m_most_recent_trans_id' = r.recent
             /\ m_command' = r.command
             /\ m_i2c_address' = r.i2c
             /\ virtual_device' = r.vdev
             /\ engine_running' = r.running
             /\ source_addr' = from
             /\ sent' = <<[ip |-> from.ip, port |-> from.port, data |-> r.sent[1].data]>>
             /\ bus_log' = r.bus
             /\ last_step' = [kind |-> r.kind, length |-> packet.length,
                              id |-> WireId(packet.buffer),
                              cmd |-> WireCommand(packet.buffer), pre |-> Snapshot,
                              bytes |-> PacketBytes(packet),
                              buffer |-> packet.buffer,
                              errors |-> ErrorCodes(r.sent),
                              src_after |-> from,
                              read_end |-> r.read_end, loops |-> r.loops]
             /\ prev_step' = Brief(last_step)
             /\ processed' = Count(r.kind, WireId(packet.buffer),
                                   WireCommand(packet.buffer), 1)
             /\ executed' = executed \cup {WireId(packet.buffer)}
             /\ rolling_buffer' = Poke(rolling_buffer, next_in, SubSeq(d, 1, length))
             /\ m_event_queue' = HandlePacket(Tail(m_event_queue), next_in, length)
             /\ last_recv' = [from |-> from, length |-> length, at |-> next_in,
                              room |-> buffer_remaining, queued |-> TRUE]
             /\ IF NeedWrap(buffer_remaining - length)
                THEN /\ next_in' = 0
                     /\ buffer_remaining' = ROLLING_BUFFER_SIZE
                ELSE /\ next_in' = next_in + length
                     /\ buffer_remaining' = buffer_remaining - length
    /\ nrecv' = nrecv + 1
    /\ task_log' = Append(task_log, "Rcvd")
    /\ UNCHANGED <<udp_task, ctl_vars>>

NextRace ==
    \/ \E q \in RaceRequests : Receive(q.d, q.from)
    \/ EngineTask
    \/ \E q \in RaceRequests : EngineTaskPreempted(q.d, q.from)

SpecRace == Init /\ [][NextRace]_vars

\* C33 as stated: every reply is sent to port SERVER_PORT at the address of
\* the last sender, however CUDPServer::reply and a receive interleave.
C33_ReplyPortConsistent ==
    \A k \in 1 .. Len(sent) :
        /\ sent[k].port = SERVER_PORT
        /\ sent[k].ip = last_step.src_after.ip

\* C34 as stated: each reply is sent to the address of the client that sent
\* the request being answered, also when a datagram of another client was
\* received after the request was queued and before its reply was sent.
C34_ReplyToRequester ==
    \A k \in 1 .. Len(sent) : sent[k].ip = ClientOf(last_step.id).ip

\* ------------------------------------------------------------------------
\* Requests at the edges of the format: payloads that are empty, that end
\* inside a header, or whose entries have width 0 or length 0
\* ------------------------------------------------------------------------
EdgeDatagrams ==
    { IdT3 \o <<2, 0>>,                                   \* SET_BUS_ADDRESS 0
      IdT1 \o <<2>>,                                      \* SET_BUS_ADDRESS, no address byte
      IdT1 \o <<1, 35>>,                                  \* SET_CLIENT_PORT, one port byte
      IdT1 \o <<4, 1, 16, 0>>,                            \* READ_REG, one length byte
      IdT2 \o <<3>>,                                      \* WRITE_REG, empty payload
      IdT2 \o <<3, 1, 16, 0, 0>>,                         \* WRITE_REG: 0x10 <- nothing
      \* WRITE_REG: width 0 <- 07, then 0x10 <- nothing
      IdT2 \o <<3, 0, 0, 1, 7, 1, 16, 0, 0>>,
      \* WRITE_REG: width 0 <- 07, 0x10 <- nothing, then a header cut after
      \* the register number
      IdT2 \o <<3, 0, 0, 1, 7, 1, 16, 0, 0, 1, 32>> }

NextEdge ==
    \/ \E d \in EdgeDatagrams, from \in Senders : Receive(d, from)
    \/ EngineTask

SpecEdge == Init /\ [][NextEdge]_vars

\* C35 as stated: while it handles a packet of length >= 5 the engine reads
\* no byte at or beyond offset length of the packet: every byte a handler
\* reads lies in [buffer, buffer + length).
C35_ReadsInsidePacket ==
    (Parsed /\ last_step.kind = "exec")
    => last_step.read_end <= last_step.buffer + last_step.length

\* C36 as stated: no reply exceeds the 1024 bytes of reply_buffer and no
\* READ_REG stores more than 1024 bytes in read_buffer, whatever length the
\* request declares.
C36_ScratchBuffersNotOverrun ==
    /\ \A k \in 1 .. Len(sent) : Len(sent[k].data) <= REPLY_BUFFER_SIZE
    /\ ExecutedRead => ReadRequest.len <= READ_BUFFER_SIZE

\* the sum of the data lengths of the entries es
RECURSIVE DataBytes(_)
DataBytes(es) == IF es = <<>> THEN 0 ELSE Len(Head(es).data) + DataBytes(Tail(es))

\* C37: WRITE_REG ends for every payload with exactly one reply.  Every
\* iteration that goes on to a next one has used up at least 3 header bytes
\* plus its data bytes of the payload, so a payload of P bytes is handled in
\* at most P / 3 + 1 iterations; this includes entries of write length 0, of
\* register width 0, and a last entry whose header is cut short.
C37_WriteRegTerminates ==
    Executed(CMD_WRITE_REG)
    => LET P == last_step.length - 5
       IN  /\ Len(sent) = 1
           /\ last_step.loops <= P \div 3 + 1
           /\ ReplyError(1) = ERR_NONE
              => /\ Entries.tail = "end"
                 /\ last_step.loops = Len(Entries.good)
                 /\ 3 * last_step.loops + DataBytes(Entries.good) <= P
           /\ Entries.tail = "header" => ReplyError(1) # ERR_NONE

\* an entry of register width 0, an entry of write length 0, then a header
\* that is cut short: three iterations, one reply
C37_Witness ==
    /\ Executed(CMD_WRITE_REG)
    /\ last_step.bytes = IdT2 \o <<3, 0, 0, 1, 7, 1, 16, 0, 0, 1, 32>>
    /\ Entries.tail = "header"
    /\ last_step.loops = 3
    /\ last_step.errors = <<ERR_NOT_ENUF_DATA>>
    /\ last_step.pre.i2c = 0
    /\ last_step.pre.vdev = <<>>
    /\ DOMAIN virtual_device = {0}
    /\ virtual_device[0] = 7

\* C38: a WRITE_REG request of exactly 5 bytes (empty payload) writes
\* nothing and is answered with one reply: error NONE, no data.
C38_EmptyWrite ==
    (Executed(CMD_WRITE_REG) /\ last_step.length = 5)
    => /\ bus_log = <<>>
       /\ virtual_device = last_step.pre.vdev
       /\ last_step.loops = 0
       /\ RepliedWith(ERR_NONE, <<>>)

C38_Witness ==
    /\ Executed(CMD_WRITE_REG)
    /\ last_step.length = 5
    /\ sent = <<[ip |-> 10, port |-> SERVER_PORT, data |-> IdT2 \o <<CMD_WRITE_REG, ERR_NONE>>]>>
    /\ last_step.read_end = last_step.buffer + 5

\* C39 as stated: every datagram stored in the ring buffer and handed to the
\* engine is at most MAX_PACKET_SIZE bytes long.
C39_DatagramSizeBound ==
    /\ last_recv.length <= MAX_PACKET_SIZE
    /\ \A i \in 1 .. Len(m_event_queue) : m_event_queue[i].length <= MAX_PACKET_SIZE

\* ------------------------------------------------------------------------
\* CUDPServer::begin and CUDPServer::stop
\* ------------------------------------------------------------------------
\* begin() is called at most this many times
MaxBegin == 2

\* the state after construction, before CUDPServer::begin:
\* "CUDPServer() {m_is_running = false;}", "static int sock = -1;"
InitIdle ==
    /\ m_have_most_recent_trans_id = FALSE
    /\ m_most_recent_trans_id = Word(0)
    /\ m_command = 0
    /\ m_i2c_address = DEFAULT_I2C_ADDRESS
    /\ virtual_device = <<>>
    /\ engine_running = TRUE
    /\ m_event_queue = <<>>
    /\ rolling_buffer = <<>>
    /\ next_in = 0
    /\ buffer_remaining = ROLLING_BUFFER_SIZE
    /\ source_addr = [ip |-> 0, port |-> 0]
    /\ nrecv = 0
    /\ sent = <<>>
    /\ bus_log = <<>>
    /\ processed = [x \in IdValues |-> 0]
    /\ udp_task = "none"
    /\ task_log = <<>>
    /\ m_is_running = FALSE
    /\ sock = -1
    /\ os_calls = [created |-> 0, deleted |-> 0, opened |-> 0, closed |-> 0,
                   last |-> "none", before |-> "none"]
    /\ last_recv = [from |-> [ip |-> 0, port |-> 0], length |-> 0, at |-> 0,
                    room |-> ROLLING_BUFFER_SIZE, queued |-> FALSE]
    /\ last_step = [kind |-> "none", length |-> 0, id |-> Word(0), cmd |-> 0,
                    bytes |-> <<>>, buffer |-> 0, errors |-> <<>>,
                    pre |-> [have |-> FALSE, recent |-> Word(0), command |-> 0,
                             i2c |-> DEFAULT_I2C_ADDRESS, vdev |-> <<>>,
                             src |-> [ip |-> 0, port |-> 0],
                             executed |-> {}],
                    src_after |-> [ip |-> 0, port |-> 0],
                    read_end |-> 0, loops |-> 0]
    /\ executed = {}
    /\ prev_step = [kind |-> "none", length |-> 0, id |-> Word(0), cmd |-> 0,
                    bytes |-> <<>>, buffer |-> 0, errors |-> <<>>]

\* CUDPServer::begin: xTaskCreatePinnedToCore, then m_is_running = true.
\* The caller starts the server only while it is not running.
Begin ==
    /\ ~m_is_running
    /\ os_calls.created < MaxBegin
    /\ udp_task' = "boot"
    /\ m_is_running' = TRUE
    /\ os_calls' = [os_calls EXCEPT !.created = @ + 1,
                                    !.before = os_calls.last, !.last = "begin"]
    /\ UNCHANGED <<engine_vars, m_event_queue, server_vars, source_addr, nrecv,
                   observe_vars, task_log, last_recv, sock>>

\* "if (m_is_running) { vTaskDelete(m_task_handle); m_is_running = false; }":
\* the number of tasks stop() deletes
Deletes_Always(running) == 1
Deletes(running) == IF running THEN 1 ELSE 0

\* hard_shutdown: "if (sock != -1) { shutdown(sock, 0); close(sock); sock = -1; }":
\* the number of sockets it closes
Closes_Always(sk) == 1
Closes(sk) == IF sk # -1 THEN 1 ELSE 0

\* CUDPServer::stop
Stop ==
    /\ udp_task' = IF m_is_running THEN "none" ELSE udp_task
    /\ m_is_running' = FALSE
    /\ sock' = IF sock # -1 THEN -1 ELSE sock
    /\ os_calls' = [os_calls EXCEPT !.deleted = @ + Deletes(m_is_running),
                                    !.closed = @ + Closes(sock),
                                    !.before = os_calls.last, !.last = "stop"]
    /\ UNCHANGED <<engine_vars, m_event_queue, server_vars, source_addr, nrecv,
                   observe_vars, task_log, last_recv>>

NextStop ==
    \/ Begin
    \/ Stop
    \/ \E outcome \in StartOutcomes : TaskStart(outcome)
    \/ \E d \in FaultDatagrams, from \in Senders : Receive(d, from)
    \/ EngineTask

SpecStop == InitIdle /\ [][NextStop]_vars

\* C40: after stop() the server is marked not running and the socket is
\* closed (sock = -1) and no transport task exists any more; a stop() that
\* follows a stop(), or that comes before any begin(), deletes no task and
\* closes no socket, so that no task is deleted and no socket closed twice;
\* after begin() the server is marked running.
C40_StopIdempotent ==
    [][/\ os_calls'.last = "stop"
          => (~m_is_running' /\ sock' = -1 /\ udp_task' = "none")
       /\ os_calls'.last = "begin" => m_is_running'
       /\ os_calls'.deleted <= os_calls'.created
       /\ os_calls'.closed <= os_calls'.opened
       /\ (os_calls.last # "begin" /\ os_calls'.last = "stop")
          => /\ os_calls'.deleted = os_calls.deleted
             /\ os_calls'.closed = os_calls.closed
             /\ m_is_running' = m_is_running
             /\ sock' = sock]_vars

\* the server has run and received, was stopped, and is stopped once more
C40_Witness ==
    /\ os_calls.last = "stop"
    /\ os_calls.before = "stop"
    /\ os_calls.created = 1
    /\ os_calls.deleted = 1
    /\ os_calls.opened = 1
    /\ os_calls.closed = 1
    /\ nrecv > 0
    /\ sock = -1
    /\ ~m_is_running

====
